---- MODULE Spec2Model ----
(***************************************************************************)
(* A model of the job-analysis desktop application: the configuration      *)
(* store (src/src/settings/config.py), the Settings view                   *)
(* (src/src/app/app.py), the vacancy search client                         *)
(* (src/src/core/api_client.py), the analysis routines                     *)
(* (src/src/core/data_analysis.py), the Result view's background load      *)
(* (src/src/app/app.py) and the launcher (src/main.py).                    *)
(*                                                                         *)
(* Texts (Entry contents, decimal numerals, JSON values) are sequences of  *)
(* one-character strings, so that int(), str() and the JSON encoding are   *)
(* modelled by what they do to the characters.                             *)
(***************************************************************************)
EXTENDS Integers, Sequences, FiniteSets, TLC

VARIABLES
    \* ---- configuration store and Settings view
    file,       \* config.json: [exists, doc], doc maps each key to its JSON text
    written,    \* history: the dict most recently handed to config.save_config
    ret,        \* the value returned by the most recent config-store call
    op,         \* history: "load" / "load_absent" after a load_config() call
    fields,     \* the Settings view's tk.StringVar contents
    dialog,     \* the messagebox (or traceback) of the last UI step, "none" if none
    \* ---- launcher
    lpc, envListed, descriptor, createRc, guiRc, guiStarted, exitStatus,
    \* ---- remote services and the code that calls them
    service,    \* the responses the search endpoint may give to a page request
    th,         \* the running calls: one record of locals per call or thread
    \* ---- the analysis routines called on their own
    arg,        \* the vacancy list handed to the routine
    out,        \* what the routine gave back: a value or the exception raised
    \* ---- the Result view
    events,     \* Tk's queue of callbacks posted with after(0, ...)
    rendered    \* the children of ResultFrame.scrollable_frame, in pack order

cfgVars == <<file, written, ret, op, fields, dialog>>
launcherVars == <<lpc, envListed, descriptor, createRc, guiRc, guiStarted, exitStatus>>
netVars == <<service, th>>
fnVars == <<arg, out>>
uiVars == <<events, rendered>>
vars == <<cfgVars, launcherVars, netVars, fnVars, uiVars>>

(***************************************************************************)
(* Texts and numerals                                                      *)
(***************************************************************************)
Digits == <<"0", "1", "2", "3", "4", "5", "6", "7", "8", "9">>

IsDigit(c) == \E i \in 1..10 : Digits[i] = c

DigitChar(d) == Digits[d + 1]

DigitVal(c) == (CHOOSE i \in 1..10 : Digits[i] = c) - 1

RECURSIVE FormatNat(_)
FormatNat(n) ==
    IF n < 10 THEN <<DigitChar(n)>>
    ELSE Append(FormatNat(n \div 10), DigitChar(n % 10))

\* str(n) of a Python int, which is also how json.dump writes an int
FormatInt(n) == IF n < 0 THEN <<"-">> \o FormatNat(-n) ELSE FormatNat(n)

RECURSIVE DigitsValue(_)
DigitsValue(s) ==
    IF s = <<>> THEN 0
    ELSE 10 * DigitsValue(SubSeq(s, 1, Len(s) - 1)) + DigitVal(s[Len(s)])

AllDigits(s) == s # <<>> /\ \A i \in 1..Len(s) : IsDigit(s[i])

RECURSIVE Strip(_)
Strip(s) ==
    IF s = <<>> THEN s
    ELSE IF s[1] = " " THEN Strip(Tail(s))
    ELSE IF s[Len(s)] = " " THEN Strip(SubSeq(s, 1, Len(s) - 1))
    ELSE s

\* int(text) of a Python str: surrounding blanks are dropped, one sign is
\* allowed, and at least one digit must follow; anything else is a ValueError.
PyInt(text) ==
    LET t == Strip(text)
        signed == t # <<>> /\ t[1] \in {"-", "+"}
        body == IF signed THEN Tail(t) ELSE t
    IN  IF AllDigits(body)
        THEN [ok |-> TRUE,
              val |-> IF signed /\ t[1] = "-" THEN -DigitsValue(body) ELSE DigitsValue(body)]
        ELSE [ok |-> FALSE, val |-> 0]

\* text.split(sep) for a one-character separator
RECURSIVE SplitOn(_, _)
SplitOn(s, sep) ==
    IF \A i \in 1..Len(s) : s[i] # sep THEN <<s>>
    ELSE LET i == CHOOSE j \in 1..Len(s) :
                      s[j] = sep /\ \A k \in 1..(j - 1) : s[k] # sep
         IN  <<SubSeq(s, 1, i - 1)>> \o SplitOn(SubSeq(s, i + 1, Len(s)), sep)

RECURSIVE JoinWith(_, _)
JoinWith(parts, sep) ==
    IF parts = <<>> THEN <<>>
    ELSE IF Len(parts) = 1 THEN parts[1]
    ELSE parts[1] \o <<sep>> \o JoinWith(Tail(parts), sep)

(***************************************************************************)
(* Python values held in the configuration dict                            *)
(***************************************************************************)
PyIntV(n) == [ty |-> "int", n |-> n, s |-> "", xs |-> <<>>]
PyStr(s) == [ty |-> "str", n |-> 0, s |-> s, xs |-> <<>>]
PyList(xs) == [ty |-> "list", n |-> 0, s |-> "", xs |-> xs]
PyTuple(xs) == [ty |-> "tuple", n |-> 0, s |-> "", xs |-> xs]

\* json.dump of one value: an int as its numeral, a str between quotes, a
\* list and a tuple both as an array of numerals
JsonEncode(v) ==
    CASE v.ty = "int" -> FormatInt(v.n)
      [] v.ty = "str" -> <<"\"", v.s, "\"">>
      [] OTHER -> <<"[">> \o JoinWith([i \in 1..Len(v.xs) |-> FormatInt(v.xs[i])], ",")
                        \o <<"]">>

JsonNumber(t) == IF t[1] = "-" THEN -DigitsValue(Tail(t)) ELSE DigitsValue(t)

\* json.load of one value: an array always comes back as a list
JsonDecode(t) ==
    CASE t[1] = "\"" -> PyStr(t[2])
      [] t[1] = "[" ->
            LET inner == SubSeq(t, 2, Len(t) - 1)
                parts == IF inner = <<>> THEN <<>> ELSE SplitOn(inner, ",")
            IN  PyList([i \in 1..Len(parts) |-> JsonNumber(parts[i])])
      [] OTHER -> PyIntV(JsonNumber(t))

json_dump(config) == [k \in DOMAIN config |-> JsonEncode(config[k])]

json_load(doc) == [k \in DOMAIN doc |-> JsonDecode(doc[k])]

(***************************************************************************)
(* Configuration store: src/src/settings/config.py                         *)
(***************************************************************************)
EmptyDoc == [k \in {} |-> <<>>]

NoFile == [exists |-> FALSE, doc |-> EmptyDoc]

NoDict == [k \in {} |-> PyIntV(0)]

DefaultConfig ==
    [window_size |-> PyTuple(<<600, 400>>),
     salary_calculation_method |-> PyStr("average"),
     max_results_per_request |-> PyIntV(50),
     top_skills_count |-> PyIntV(5),
     top_regions_count |-> PyIntV(5)]

\* save_config(config): the file is opened for writing and holds the dump
save_config(config) == [exists |-> TRUE, doc |-> json_dump(config)]

\* the file between open(CONFIG_FILE, "w") and the end of json.dump: it
\* exists and holds no JSON document yet
Truncated == [exists |-> TRUE, doc |-> EmptyDoc, empty |-> TRUE]

\* load_config() without the test for an existing file
load_config_unconditional(f) ==
    LET f1 == save_config(DefaultConfig)
    IN  [file |-> f1, config |-> json_load(f1.doc), raised |-> ""]

\* load_config(): writes the defaults first when the file is absent; yields
\* the file as it is afterwards and the dict read from it, or the exception
\* of json.load when the file holds no document
load_config(f) ==
    LET f1 == IF ~f.exists THEN save_config(DefaultConfig) ELSE f
    IN  [file |-> f1, config |-> json_load(f1.doc),
         raised |-> IF "empty" \in DOMAIN f1 THEN "JSONDecodeError" ELSE ""]

\* the dict most recently handed to save_config once load_config(f) has run
WrittenAfterLoad(f, w) == IF ~f.exists THEN DefaultConfig ELSE w

\* config.get(key, default)
DictGet(config, key, default) ==
    IF key \in DOMAIN config THEN config[key] ELSE default

get_window_size(f) ==
    LET l == load_config(f)
    IN  [file |-> l.file, raised |-> l.raised,
         value |-> DictGet(l.config, "window_size", PyTuple(<<600, 400>>))]

get_salary_calculation_method(f) ==
    LET l == load_config(f)
    IN  [file |-> l.file, raised |-> l.raised,
         value |-> DictGet(l.config, "salary_calculation_method", PyStr("average"))]

\* a get_max_results_per_request() that writes the defaults before it reads
get_max_results_per_request_resetting(f) ==
    LET l == load_config(save_config(DefaultConfig))
    IN  [file |-> l.file, raised |-> l.raised,
         value |-> DictGet(l.config, "max_results_per_request", PyIntV(50))]

get_max_results_per_request(f) ==
    LET l == load_config(f)
    IN  [file |-> l.file, raised |-> l.raised,
         value |-> DictGet(l.config, "max_results_per_request", PyIntV(50))]

get_top_skills_count(f) ==
    LET l == load_config(f)
    IN  [file |-> l.file, raised |-> l.raised,
         value |-> DictGet(l.config, "top_skills_count", PyIntV(5))]

get_top_regions_count(f) ==
    LET l == load_config(f)
    IN  [file |-> l.file, raised |-> l.raised,
         value |-> DictGet(l.config, "top_regions_count", PyIntV(5))]

\* set_<field>(value): load, replace one key, save
SetKey(f, key, value) ==
    LET config == load_config(f).config
    IN  [k \in DOMAIN config \cup {key} |-> IF k = key THEN value ELSE config[k]]

(***************************************************************************)
(* Configuration store used directly (the module's public functions)       *)
(***************************************************************************)
MaxCount == 2

Methods == {"average", "median"}

CountValues == {MaxCount, 50}

WindowSizes == {<<600, 400>>, <<800, 600>>}

\* the settings records handed to save_config: every field present and valid
ValidRecords ==
    {[window_size |-> w, salary_calculation_method |-> PyStr(m),
      max_results_per_request |-> PyIntV(a), top_skills_count |-> PyIntV(b),
      top_regions_count |-> PyIntV(c)] :
        w \in {PyTuple(x) : x \in WindowSizes} \cup {PyList(x) : x \in WindowSizes},
        m \in Methods, a \in CountValues, b \in CountValues, c \in CountValues}

\* a caller runs save_config(r)
StoreSave ==
    \E r \in ValidRecords :
        /\ file' = save_config(r)
        /\ written' = r
        /\ op' = "call"
        /\ UNCHANGED <<ret, fields, dialog>>

\* a caller runs load_config()
StoreLoad ==
    LET l == load_config(file)
    IN  /\ file' = l.file
        /\ written' = WrittenAfterLoad(file, written)
        /\ ret' = l.config
        /\ op' = IF file.exists THEN "load" ELSE "load_absent"
        /\ UNCHANGED <<fields, dialog>>

\* a caller runs one of the get_<field>() functions
StoreGet ==
    \E key \in DOMAIN DefaultConfig :
        LET g == CASE key = "window_size" -> get_window_size(file)
                   [] key = "salary_calculation_method" -> get_salary_calculation_method(file)
                   [] key = "max_results_per_request" -> get_max_results_per_request(file)
                   [] key = "top_skills_count" -> get_top_skills_count(file)
                   [] OTHER -> get_top_regions_count(file)
        IN  /\ file' = g.file
            /\ written' = WrittenAfterLoad(file, written)
            /\ ret' = [k \in {key} |-> g.value]
            /\ op' = "call"
            /\ UNCHANGED <<fields, dialog>>

\* a caller runs one of the set_<field>(value) functions
StoreSet ==
    \E key \in DOMAIN DefaultConfig :
        \E value \in CASE key = "window_size" -> {PyTuple(x) : x \in WindowSizes}
                       [] key = "salary_calculation_method" -> {PyStr(m) : m \in Methods}
                       [] OTHER -> {PyIntV(a) : a \in CountValues} :
            LET config == SetKey(file, key, value)
            IN  /\ file' = save_config(config)
                /\ written' = config
                /\ op' = "call"
                /\ UNCHANGED <<ret, fields, dialog>>

\* the user (or another program) deletes config.json between two calls
StoreRemove ==
    /\ file.exists
    /\ file' = NoFile
    /\ op' = "call"
    /\ UNCHANGED <<written, ret, fields, dialog>>

(***************************************************************************)
(* Settings view: src/src/app/app.py, class SettingsFrame                  *)
(***************************************************************************)
available_resolutions ==
    << <<"8", "0", "0", "x", "6", "0", "0">>,
       <<"1", "0", "2", "4", "x", "7", "6", "8">>,
       <<"1", "2", "8", "0", "x", "7", "2", "0">>,
       <<"1", "2", "8", "0", "x", "1", "0", "2", "4">>,
       <<"1", "4", "4", "0", "x", "9", "0", "0">>,
       <<"1", "9", "2", "0", "x", "1", "0", "8", "0">> >>

\* what the user types into an Entry
FieldTexts == {<<"a", "b", "c">>, <<"-", "1">>, <<"0">>, <<" ", "7">>}

\* the OptionMenu entries the user picks among
ChosenResolutions == {available_resolutions[6]}

IntFields == {"max_results_var", "top_regions_var", "top_skills_var"}

\* build_widgets(): the StringVars as set from the stored configuration. The
\* window_size key is indexed, not defaulted: without it the KeyError leaves
\* the variables as they were.
build_widgets(f, old) ==
    LET l == load_config(f)
        config_data == l.config
        ws == config_data["window_size"].xs
    IN  [file |-> l.file,
         raised |-> IF "window_size" \notin DOMAIN config_data THEN "KeyError" ELSE "",
         fields |->
            IF "window_size" \notin DOMAIN config_data THEN old
            ELSE [salary_method_var |->
                      DictGet(config_data, "salary_calculation_method", PyStr("average")).s,
                  max_results_var |->
                      FormatInt(DictGet(config_data, "max_results_per_request", PyIntV(10)).n),
                  top_regions_var |->
                      FormatInt(DictGet(config_data, "top_regions_count", PyIntV(5)).n),
                  top_skills_var |->
                      FormatInt(DictGet(config_data, "top_skills_count", PyIntV(5)).n),
                  window_size_var |-> FormatInt(ws[1]) \o <<"x">> \o FormatInt(ws[2])]]

\* show_frame("SettingsFrame"): refresh() rebuilds the widgets; an exception
\* that leaves it is reported by Tk as a traceback
SettingsFrame_refresh ==
    LET b == build_widgets(file, fields)
    IN  /\ file' = b.file
        /\ written' = WrittenAfterLoad(file, written)
        /\ fields' = b.fields
        /\ dialog' = IF b.raised # "" THEN "traceback" ELSE "none"
        /\ UNCHANGED <<ret, op>>

\* the user edits one of the Entry widgets named, typing one of the texts
SettingsTypeOf(names, texts) ==
    \E name \in names, text \in texts :
        /\ fields' = [fields EXCEPT ![name] = text]
        /\ dialog' = "none"
        /\ UNCHANGED <<file, written, ret, op>>

\* the user edits one of the three Entry widgets
SettingsType == SettingsTypeOf(IntFields, FieldTexts)

\* the user picks an entry of one of the two OptionMenus
SettingsChoose ==
    /\ \/ \E m \in Methods : fields' = [fields EXCEPT !.salary_method_var = m]
       \/ \E r \in ChosenResolutions : fields' = [fields EXCEPT !.window_size_var = r]
    /\ dialog' = "none"
    /\ UNCHANGED <<file, written, ret, op>>

\* save_config() with each field read on its own: a field that cannot be
\* read keeps its default instead of stopping the save
SettingsRecordLenient(fv) ==
    LET a == PyInt(fv.max_results_var)
        b == PyInt(fv.top_regions_var)
        c == PyInt(fv.top_skills_var)
        parts == SplitOn(fv.window_size_var, "x")
        w == [i \in 1..Len(parts) |-> PyInt(parts[i])]
    IN  [ok |-> TRUE,
         config |->
            [salary_calculation_method |-> PyStr(fv.salary_method_var),
             max_results_per_request |-> PyIntV(IF a.ok THEN a.val ELSE 50),
             top_regions_count |-> PyIntV(IF b.ok THEN b.val ELSE 5),
             top_skills_count |-> PyIntV(IF c.ok THEN c.val ELSE 5),
             window_size |-> PyList([i \in 1..Len(parts) |-> w[i].val])]]

\* the dict save_config() builds; ok is FALSE when an int() raises ValueError
SettingsRecord(fv) ==
    LET a == PyInt(fv.max_results_var)
        b == PyInt(fv.top_regions_var)
        c == PyInt(fv.top_skills_var)
        parts == SplitOn(fv.window_size_var, "x")
        w == [i \in 1..Len(parts) |-> PyInt(parts[i])]
    IN  [ok |-> a.ok /\ b.ok /\ c.ok /\ \A i \in 1..Len(parts) : w[i].ok,
         config |->
            [salary_calculation_method |-> PyStr(fv.salary_method_var),
             max_results_per_request |-> PyIntV(a.val),
             top_regions_count |-> PyIntV(b.val),
             top_skills_count |-> PyIntV(c.val),
             window_size |-> PyList([i \in 1..Len(parts) |-> w[i].val])]]

\* the Save button: SettingsFrame.save_config()
SettingsFrame_save_config ==
    LET r == SettingsRecord(fields)
    IN  /\ IF r.ok
           THEN /\ file' = save_config(r.config)
                /\ written' = r.config
                /\ dialog' = "info"
           ELSE /\ dialog' = "error"
                /\ UNCHANGED <<file, written>>
        /\ UNCHANGED <<ret, op, fields>>

\* the UI thread is inside config.save_config: the file is open for writing
UiBusy == "empty" \in DOMAIN file

\* the Save button, as other threads see it: the dict is built, then
\* save_config opens the file for writing, which empties it
SettingsFrame_save_open ==
    LET r == SettingsRecord(fields)
    IN  /\ ~UiBusy
        /\ IF r.ok
           THEN /\ file' = Truncated
                /\ dialog' = "none"
           ELSE /\ dialog' = "error"
                /\ UNCHANGED file
        /\ UNCHANGED <<written, ret, op, fields>>

\* the Save button, continued: json.dump has written the dict, the file is
\* closed and the success dialog is shown
SettingsFrame_save_close ==
    LET r == SettingsRecord(fields)
    IN  /\ UiBusy
        /\ file' = save_config(r.config)
        /\ written' = r.config
        /\ dialog' = "info"
        /\ UNCHANGED <<ret, op, fields>>

\* the StringVars as SettingsFrame.__init__ creates them, before build_widgets
UnsetFields ==
    [salary_method_var |-> "", max_results_var |-> <<>>, top_regions_var |-> <<>>,
     top_skills_var |-> <<>>, window_size_var |-> <<>>]

\* a stored record that lacks some of the fields (a file from elsewhere, or
\* save_config called with such a dict): the fields it has are not the defaults
StoredRecord ==
    [window_size |-> PyList(<<800, 600>>),
     salary_calculation_method |-> PyStr("median"),
     max_results_per_request |-> PyIntV(MaxCount),
     top_skills_count |-> PyIntV(MaxCount),
     top_regions_count |-> PyIntV(MaxCount)]

PartialRecords ==
    {[k \in keys |-> StoredRecord[k]] : keys \in SUBSET DOMAIN StoredRecord}

(***************************************************************************)
(* Exact arithmetic for salary figures: a number is num/den in lowest terms *)
(***************************************************************************)
RECURSIVE GCD(_, _)
GCD(a, b) == IF b = 0 THEN a ELSE GCD(b, a % b)

Rat(n, d) == LET g == GCD(n, d) IN [num |-> n \div g, den |-> d \div g]

RatAdd(a, b) == Rat(a.num * b.den + b.num * a.den, a.den * b.den)

RatDiv(a, k) == Rat(a.num, a.den * k)

RatLE(a, b) == a.num * b.den <= b.num * a.den

PyInt0 == [ty |-> "int", q |-> Rat(0, 1)]

PyFloat(q) == [ty |-> "float", q |-> q]

(***************************************************************************)
(* Vacancies as the search endpoint returns them                           *)
(***************************************************************************)
\* Python's None where a number is expected
None == -1

NoSalary == [has |-> FALSE, from |-> None, to |-> None, currency |-> ""]

NoArea == [has |-> FALSE, named |-> FALSE, name |-> ""]

\* what a GET of the vacancy's alternate_url gives: status and skill items
EmptyPage == [status |-> 200, skills |-> <<>>]

BaseVacancy == [page |-> EmptyPage, salary |-> NoSalary, area |-> NoArea]

(***************************************************************************)
(* Vacancy search: src/src/core/api_client.py, search_vacancies            *)
(***************************************************************************)
MaxTotal == 3

MaxPageItems == 2

MaxPages == 2

RECURSIVE SeqsUpTo(_, _)
SeqsUpTo(S, n) ==
    IF n = 0 THEN {<<>>}
    ELSE LET shorter == SeqsUpTo(S, n - 1)
         IN  shorter \cup {Append(q, x) : q \in shorter, x \in S}

\* every response of the endpoint over the given vacancies: a failure
\* status, or a JSON object with items and, possibly, a pages count
Responses(catalog) ==
    {[ok |-> FALSE, items |-> <<>>, has_pages |-> FALSE, pages |-> 0]}
    \cup {[ok |-> TRUE, items |-> i, has_pages |-> FALSE, pages |-> 0] :
              i \in SeqsUpTo(catalog, MaxPageItems)}
    \cup {[ok |-> TRUE, items |-> i, has_pages |-> TRUE, pages |-> n] :
              i \in SeqsUpTo(catalog, MaxPageItems), n \in 0..MaxPages}

\* the locals of a call that has not reached search_vacancies yet
NewCall(caller) ==
    [caller |-> caller, pc |-> "search_call", total_vacancies |-> 0,
     all_vacancies |-> <<>>, page |-> 0, requests |-> <<>>,
     vacancies |-> <<>>, error |-> "",
     \* the locals of ResultFrame._load_data, when it is the caller
     skills |-> <<>>, regions |-> <<>>, salary |-> PyInt0,
     salary_distribution |-> <<>>,
     \* history: the routines called, the detail pages and exchange rates
     \* requested, the callbacks handed to after(0, ...)
     calls |-> <<"search_vacancies">>, scraped |-> 0, lookups |-> 0,
     posted |-> <<>>]

NetIdle == service = {} /\ th = <<>>

\* lst[:n]
PySlicePrefixAll(lst, n) == lst

PySlicePrefix(lst, n) ==
    IF n >= 0 THEN SubSeq(lst, 1, IF n < Len(lst) THEN n ELSE Len(lst))
    ELSE SubSeq(lst, 1, IF Len(lst) + n > 0 THEN Len(lst) + n ELSE 0)

\* search_vacancies returns: its caller goes on with the list
Returned(c, lst) ==
    [c EXCEPT !.pc = IF c.caller = "direct" THEN "returned" ELSE "skills",
              !.vacancies = lst]

\* an exception leaves the call
Raised(c, err) ==
    [c EXCEPT !.pc = IF c.caller = "direct" THEN "raised" ELSE "except",
              !.error = err]

\* total_vacancies = get_max_results_per_request(); all_vacancies = []; page = 0
search_call ==
    \E t \in DOMAIN th :
        /\ th[t].pc = "search_call"
        /\ LET g == get_max_results_per_request(file)
           IN  /\ file' = g.file
               /\ written' = WrittenAfterLoad(file, written)
               /\ th' = [th EXCEPT ![t] =
                            IF g.raised # "" THEN Raised(@, g.raised)
                            ELSE [@ EXCEPT !.pc = "search_loop",
                                           !.total_vacancies = g.value.n,
                                           !.all_vacancies = <<>>,
                                           !.page = 0]]
        /\ UNCHANGED <<ret, op, fields, dialog, service>>

\* one pass of the while loop: the request for the current page, the
\* response, and the test that ends the loop or moves to the next page
search_request ==
    \E t \in DOMAIN th :
        LET c == th[t] IN
        /\ c.pc = "search_loop"
        /\ Len(c.all_vacancies) < c.total_vacancies
        /\ \E r \in service :
              LET asked == [c EXCEPT !.requests =
                               Append(@, [page |-> c.page, had |-> Len(c.all_vacancies),
                                          reported |-> IF r.ok /\ r.has_pages
                                                       THEN r.pages ELSE None])]
                  got == c.all_vacancies \o r.items
                  pages == IF r.has_pages THEN r.pages ELSE 1
              IN  th' = [th EXCEPT ![t] =
                     IF ~r.ok THEN Raised(asked, "HTTPError")
                     ELSE IF Len(got) >= c.total_vacancies \/ ~(pages > c.page)
                     THEN Returned([asked EXCEPT !.all_vacancies = got],
                                   PySlicePrefix(got, c.total_vacancies))
                     ELSE [asked EXCEPT !.all_vacancies = got, !.page = c.page + 1]]
        /\ UNCHANGED <<cfgVars, service>>

\* the while condition fails at the head of the loop
search_exit ==
    \E t \in DOMAIN th :
        LET c == th[t] IN
        /\ c.pc = "search_loop"
        /\ ~(Len(c.all_vacancies) < c.total_vacancies)
        /\ th' = [th EXCEPT ![t] =
                     Returned(c, PySlicePrefix(c.all_vacancies, c.total_vacancies))]
        /\ UNCHANGED <<cfgVars, service>>

(***************************************************************************)
(* Currency conversion: src/src/core/api_client.py                         *)
(***************************************************************************)
\* what the exchange-rate endpoint may answer: nothing (a failure status),
\* or a table of rates
ExchangeWorlds ==
    {[up |-> FALSE, rates |-> [c \in {} |-> 1]],
     [up |-> TRUE, rates |-> [c \in {"USD"} |-> 1]],
     [up |-> TRUE, rates |-> [c \in {"USD", "BYN"} |-> IF c = "USD" THEN 1 ELSE 2]]}

\* get_exchange_rate(currency): the rate, or the exception raised, and the
\* number of requests sent to the exchange-rate endpoint
get_exchange_rate(currency, world) ==
    IF currency = "RUR" THEN [raised |-> "", rate |-> 1, lookups |-> 0]
    ELSE IF ~world.up THEN [raised |-> "HTTPError", rate |-> 1, lookups |-> 1]
    ELSE IF currency \in DOMAIN world.rates
    THEN [raised |-> "", rate |-> world.rates[currency], lookups |-> 1]
    ELSE [raised |-> "CurrencyNotFound", rate |-> 1, lookups |-> 1]

\* convert_salary_to_rub(salary_value, currency)
convert_salary_to_rub(salary_value, currency, world) ==
    IF currency = "RUR" THEN [raised |-> "", value |-> salary_value, lookups |-> 0]
    ELSE LET code == IF currency = "BYR" THEN "BYN" ELSE currency
             x == get_exchange_rate(code, world)
         IN  [raised |-> x.raised, value |-> RatDiv(salary_value, x.rate),
              lookups |-> x.lookups]

(***************************************************************************)
(* Salary analysis: src/src/core/data_analysis.py                          *)
(***************************************************************************)
MaxVac == 3

MaxSalary == 2

\* the for loop of calculate_salary: the values collected from the first
\* vacancies, and the exception that stopped the loop, if any
RECURSIVE SalaryValues(_, _)
SalaryValues(vacancies, world) ==
    IF vacancies = <<>> THEN [raised |-> "", values |-> <<>>, lookups |-> 0]
    ELSE LET before == SalaryValues(SubSeq(vacancies, 1, Len(vacancies) - 1), world)
             salary == vacancies[Len(vacancies)].salary
             currency == IF salary.currency = "" THEN "RUR" ELSE salary.currency
             amount ==
                IF salary.from # None /\ salary.to = None THEN Rat(salary.from, 1)
                ELSE IF salary.to # None /\ salary.from = None THEN Rat(salary.to, 1)
                ELSE Rat(salary.from + salary.to, 2)
             conv == convert_salary_to_rub(amount, currency, world)
             lookups == before.lookups + conv.lookups
         IN  IF before.raised # "" THEN before
             ELSE IF ~salary.has THEN before
             ELSE IF salary.from = None /\ salary.to = None THEN before
             ELSE IF conv.raised # ""
             THEN [raised |-> conv.raised, values |-> before.values, lookups |-> lookups]
             ELSE [raised |-> "", values |-> Append(before.values, conv.value),
                   lookups |-> lookups]

RECURSIVE RatSum(_)
RatSum(values) ==
    IF values = <<>> THEN Rat(0, 1) ELSE RatAdd(values[1], RatSum(Tail(values)))

\* np.mean(values)
PyMean(values) == RatDiv(RatSum(values), Len(values))

RECURSIVE InsertSorted(_, _)
InsertSorted(sorted, x) ==
    IF sorted = <<>> THEN <<x>>
    ELSE IF RatLE(x, sorted[1]) THEN <<x>> \o sorted
    ELSE <<sorted[1]>> \o InsertSorted(Tail(sorted), x)

RECURSIVE SortValues(_)
SortValues(values) ==
    IF values = <<>> THEN <<>>
    ELSE InsertSorted(SortValues(Tail(values)), values[1])

\* a median that takes the upper middle value of an even count
PyMedianUpper(values) == SortValues(values)[(Len(values) \div 2) + 1]

\* np.median(values): the middle of the sorted values, the mean of the two
\* middle ones for an even count
PyMedian(values) ==
    LET sorted == SortValues(values)
        n == Len(values)
    IN  IF n % 2 = 1 THEN sorted[(n + 1) \div 2]
        ELSE RatDiv(RatAdd(sorted[n \div 2], sorted[(n \div 2) + 1]), 2)

\* the end of calculate_salary with any method but "median" taken as "average"
AggregateDefaulting(values, method) ==
    IF values = <<>> THEN [raised |-> "", value |-> PyInt0]
    ELSE IF method = "median" THEN [raised |-> "", value |-> PyFloat(PyMedian(values))]
    ELSE [raised |-> "", value |-> PyFloat(PyMean(values))]

\* the end of calculate_salary, after the loop
Aggregate(values, method) ==
    IF values = <<>> THEN [raised |-> "", value |-> PyInt0]
    ELSE IF method = "average" THEN [raised |-> "", value |-> PyFloat(PyMean(values))]
    ELSE IF method = "median" THEN [raised |-> "", value |-> PyFloat(PyMedian(values))]
    ELSE [raised |-> "InvalidMethod", value |-> PyInt0]

\* calculate_salary(vacancies, method)
calculate_salary(vacancies, method, world) ==
    LET collected == SalaryValues(vacancies, world)
        result == IF collected.raised # ""
                  THEN [raised |-> collected.raised, value |-> PyInt0]
                  ELSE Aggregate(collected.values, method)
    IN  [raised |-> result.raised, value |-> result.value,
         lookups |-> collected.lookups]

\* get_salary_statistics(vacancies): the method comes from the configuration
get_salary_statistics(f, vacancies, world) ==
    LET g == get_salary_calculation_method(f)
    IN  [file |-> g.file,
         result |-> IF g.raised # ""
                    THEN [raised |-> g.raised, value |-> PyInt0, lookups |-> 0]
                    ELSE calculate_salary(vacancies, g.value.s, world)]

\* the methods a caller passes or the configuration file holds
MethodInputs == Methods \cup {"mode"}

SalaryBounds == {None, 0, MaxSalary}

\* the salary sub-records of the vacancies handed to the routines
SalaryKinds ==
    {NoSalary}
    \cup {[has |-> TRUE, from |-> a, to |-> b, currency |-> "RUR"] :
              a \in SalaryBounds, b \in SalaryBounds}
    \cup {[has |-> TRUE, from |-> MaxSalary, to |-> MaxSalary, currency |-> ""],
          [has |-> TRUE, from |-> MaxSalary, to |-> None, currency |-> "BYR"],
          [has |-> TRUE, from |-> None, to |-> MaxSalary, currency |-> "EUR"]}

SalaryVacancies == {[BaseVacancy EXCEPT !.salary = k] : k \in SalaryKinds}

FnIdle == arg = <<>> /\ out = [fn |-> "none"]

\* a caller runs calculate_salary(vacancies, method)
call_calculate_salary ==
    \E method \in MethodInputs, world \in ExchangeWorlds :
        LET r == calculate_salary(arg, method, world)
        IN  /\ out.fn = "none"
            /\ out' = [fn |-> "calculate_salary", method |-> method,
                       raised |-> r.raised, value |-> r.value]
            /\ UNCHANGED <<cfgVars, arg>>

\* a caller runs get_salary_statistics(vacancies)
call_get_salary_statistics ==
    \E world \in ExchangeWorlds :
        LET r == get_salary_statistics(file, arg, world)
        IN  /\ out.fn = "none"
            /\ file' = r.file
            /\ written' = WrittenAfterLoad(file, written)
            /\ out' = [fn |-> "get_salary_statistics",
                       method |-> json_load(r.file.doc).salary_calculation_method.s,
                       raised |-> r.result.raised, value |-> r.result.value]
            /\ UNCHANGED <<ret, op, fields, dialog, arg>>

(***************************************************************************)
(* Top skills and regions: src/src/core/data_analysis.py                   *)
(***************************************************************************)
MaxTop == 2

\* get_vacancy_skills(url): the skill items of the page, or a ValueError
\* when the status is not 200
get_vacancy_skills(vacancy) ==
    IF vacancy.page.status # 200 THEN [raised |-> "PageError", skills |-> <<>>]
    ELSE [raised |-> "", skills |-> vacancy.page.skills]

\* the for loop of get_top_skills: all_skills, or the exception of a scrape,
\* and the number of detail pages requested
RECURSIVE AllSkills(_)
AllSkills(vacancies) ==
    IF vacancies = <<>> THEN [raised |-> "", all_skills |-> <<>>, scraped |-> 0]
    ELSE LET before == AllSkills(SubSeq(vacancies, 1, Len(vacancies) - 1))
             got == get_vacancy_skills(vacancies[Len(vacancies)])
         IN  IF before.raised # "" THEN before
             ELSE IF got.raised # ""
             THEN [raised |-> got.raised, all_skills |-> <<>>,
                   scraped |-> before.scraped + 1]
             ELSE [raised |-> "", all_skills |-> before.all_skills \o got.skills,
                   scraped |-> before.scraped + 1]

\* Counter(items): one [value, count] per distinct value, in the order the
\* values are first met
RECURSIVE CounterOf(_)
CounterOf(items) ==
    IF items = <<>> THEN <<>>
    ELSE LET before == CounterOf(SubSeq(items, 1, Len(items) - 1))
             x == items[Len(items)]
         IN  IF \E k \in DOMAIN before : before[k].value = x
             THEN [k \in DOMAIN before |->
                      IF before[k].value = x
                      THEN [before[k] EXCEPT !.count = @ + 1] ELSE before[k]]
             ELSE Append(before, [value |-> x, count |-> 1])

\* an insertion that puts the entry before the entries of equal count
InsertByCountFirst(sorted, e) ==
    LET ahead == {k \in DOMAIN sorted : sorted[k].count > e.count}
        n == Cardinality(ahead)
    IN  SubSeq(sorted, 1, n) \o <<e>> \o SubSeq(sorted, n + 1, Len(sorted))

\* the place of one more entry in a list sorted by descending count: after
\* every entry that counts as much or more (a stable sort)
InsertByCount(sorted, e) ==
    LET ahead == {k \in DOMAIN sorted : sorted[k].count >= e.count}
        n == Cardinality(ahead)
    IN  SubSeq(sorted, 1, n) \o <<e>> \o SubSeq(sorted, n + 1, Len(sorted))

RECURSIVE SortByCount(_)
SortByCount(entries) ==
    IF entries = <<>> THEN <<>>
    ELSE InsertByCount(SortByCount(SubSeq(entries, 1, Len(entries) - 1)),
                       entries[Len(entries)])

\* counter.most_common(n) for an int n
most_common(counter, n) ==
    IF n <= 0 THEN <<>>
    ELSE SubSeq(SortByCount(counter), 1, IF n < Len(counter) THEN n ELSE Len(counter))

\* get_top_skills(vacancies)
get_top_skills(f, vacancies) ==
    LET g == get_top_skills_count(f)
        scraped == AllSkills(vacancies)
    IN  IF g.raised # ""
        THEN [file |-> g.file, raised |-> g.raised, scraped |-> 0, entries |-> <<>>]
        ELSE [file |-> g.file,
              raised |-> scraped.raised,
              scraped |-> scraped.scraped,
              entries |-> IF scraped.raised # "" THEN <<>>
                          ELSE most_common(CounterOf(scraped.all_skills), g.value.n)]

\* the list comprehension of get_top_regions: the name (or None) of every
\* vacancy whose area is not empty
RECURSIVE RegionNames(_)
RegionNames(vacancies) ==
    IF vacancies = <<>> THEN <<>>
    ELSE LET before == RegionNames(SubSeq(vacancies, 1, Len(vacancies) - 1))
             area == vacancies[Len(vacancies)].area
         IN  IF area.has THEN Append(before, [named |-> area.named, name |-> area.name])
             ELSE before

\* get_top_regions(vacancies, top_x)
get_top_regions(vacancies, top_x) == most_common(CounterOf(RegionNames(vacancies)), top_x)

\* the detail pages and areas of the vacancies handed to the two routines
SkillPages ==
    {[status |-> 200, skills |-> x] :
        x \in {<<>>, <<"py">>, <<"sql">>, <<"py", "sql">>, <<"sql", "py">>, <<"py", "py">>}}
    \cup {[status |-> 404, skills |-> <<>>]}

Areas ==
    {[has |-> TRUE, named |-> FALSE, name |-> ""],
     [has |-> TRUE, named |-> TRUE, name |-> "msk"],
     [has |-> TRUE, named |-> TRUE, name |-> "spb"]}

TopVacancies ==
    {[BaseVacancy EXCEPT !.page = x] : x \in SkillPages}
    \cup {[BaseVacancy EXCEPT !.area = a] : a \in Areas}

\* a caller runs get_top_skills(vacancies)
call_get_top_skills ==
    LET r == get_top_skills(file, arg)
    IN  /\ out.fn = "none"
        /\ file' = r.file
        /\ written' = WrittenAfterLoad(file, written)
        /\ out' = [fn |-> "get_top_skills",
                   n |-> json_load(r.file.doc).top_skills_count.n,
                   raised |-> r.raised, entries |-> r.entries]
        /\ UNCHANGED <<ret, op, fields, dialog, arg>>

\* a caller runs get_top_regions(vacancies, get_top_regions_count())
call_get_top_regions ==
    LET g == get_top_regions_count(file)
    IN  /\ out.fn = "none"
        /\ file' = g.file
        /\ written' = WrittenAfterLoad(file, written)
        /\ out' = [fn |-> "get_top_regions", n |-> g.value.n,
                   raised |-> g.raised,
                   entries |-> IF g.raised # "" THEN <<>>
                               ELSE get_top_regions(arg, g.value.n)]
        /\ UNCHANGED <<ret, op, fields, dialog, arg>>

(***************************************************************************)
(* Launcher: src/main.py                                                   *)
(***************************************************************************)
MaxCreateRc == 2

MaxGuiRc == 3

\* the launcher is not part of the run
LauncherIdle ==
    /\ lpc = "off" /\ envListed = FALSE /\ descriptor = FALSE
    /\ createRc = 0 /\ guiRc = 0 /\ guiStarted = FALSE /\ exitStatus = 0

\* the world the launcher starts in: whether "conda env list" names the
\* environment, whether environment.yml exists, and the return codes the
\* two child processes would give
LauncherStart ==
    /\ lpc = "main"
    /\ envListed \in BOOLEAN
    /\ descriptor \in BOOLEAN
    /\ createRc \in 0..MaxCreateRc
    /\ guiRc \in 0..MaxGuiRc
    /\ guiStarted = FALSE
    /\ exitStatus = 0

\* sys.exit(code): the process status is the low byte of the code
sys_exit(code) == code % 256

\* the __main__ block up to the call it makes next
launcher_main ==
    /\ lpc = "main"
    /\ IF ~envListed
       THEN IF ~descriptor
            THEN lpc' = "exited" /\ exitStatus' = sys_exit(1)
            ELSE lpc' = "create" /\ UNCHANGED exitStatus
       ELSE lpc' = "run" /\ UNCHANGED exitStatus
    /\ UNCHANGED <<envListed, descriptor, createRc, guiRc, guiStarted>>

\* create_conda_env()
create_conda_env ==
    /\ lpc = "create"
    /\ IF createRc # 0
       THEN lpc' = "exited" /\ exitStatus' = sys_exit(1)
       ELSE lpc' = "run" /\ UNCHANGED exitStatus
    /\ UNCHANGED <<envListed, descriptor, createRc, guiRc, guiStarted>>

\* run_app_in_conda() without the sys.exit: the script always ends normally
RunAppStatusIgnored(rc) == 0

\* the status run_app_in_conda() leaves the launcher with: the child's
\* return code when it is not zero, else the end of the script (status 0)
RunAppStatus(rc) == IF rc # 0 THEN sys_exit(rc) ELSE 0

\* run_app_in_conda(ENV_NAME), the last statement of the script
run_app_in_conda ==
    /\ lpc = "run"
    /\ guiStarted' = TRUE
    /\ lpc' = "exited"
    /\ exitStatus' = RunAppStatus(guiRc)
    /\ UNCHANGED <<envListed, descriptor, createRc, guiRc>>

(***************************************************************************)
(* Result view: src/src/app/app.py, MainMenu.search and ResultFrame        *)
(***************************************************************************)
MaxActivations == 2

\* round(x, 2) of a float, in hundredths: the nearest, a tie going to the
\* even one
Round2(q) ==
    LET n == q.num * 100
        f == n \div q.den
        r == n % q.den
    IN  IF 2 * r < q.den THEN f
        ELSE IF 2 * r > q.den THEN f + 1
        ELSE IF f % 2 = 0 THEN f ELSE f + 1

\* str() of a float of h hundredths: at least one decimal, no trailing zero
FormatFloat(h) ==
    LET a == IF h < 0 THEN -h ELSE h
        tenths == (a % 100) \div 10
    IN  (IF h < 0 THEN <<"-">> ELSE <<>>)
        \o FormatNat(a \div 100) \o <<".">>
        \o (IF a % 10 = 0 THEN <<DigitChar(tenths)>>
            ELSE <<DigitChar(tenths), DigitChar(a % 10)>>)

\* f"{round(salary, 2)}": round() of an int is that int, of a float a float
FormatSalary(salary) ==
    IF salary.ty = "int" THEN FormatInt(salary.q.num)
    ELSE FormatFloat(Round2(salary.q))

\* a widget packed into scrollable_frame; its text is the sequence of the
\* fragments of the f-string: a literal part as written, a formatted number
\* as its characters
Label(text) == [kind |-> "label", text |-> text]

FigureCanvasTkAgg(title) == [kind |-> "canvas", text |-> <<title>>]

\* ResultFrame.refresh(query): the frame after the old children are destroyed
ResultFrame_refresh(query) ==
    <<Label(<<"Query: ">> \o query), Label(<<"Loading data...">>)>>

\* the start of an entry line: the bullet character U+2022 and a space
Bullet == "U+2022 "

display_salary(salary) ==
    <<Label(<<"Salary">>), Label(FormatSalary(salary) \o <<" RUB">>)>>

display_salary_histogram(salaries) ==
    IF salaries = <<>> THEN <<>>
    ELSE <<Label(<<"Salary Distribution">>), FigureCanvasTkAgg("Salary Histogram")>>

display_skills(skills) ==
    <<Label(<<"Skills">>)>>
    \o [i \in DOMAIN skills |->
           Label(<<Bullet, skills[i].value, ": ">> \o FormatInt(skills[i].count))]
    \o <<FigureCanvasTkAgg("Top Skills")>>

display_regions(regions) ==
    <<Label(<<"Regions">>)>>
    \o [i \in DOMAIN regions |->
           Label(<<Bullet, IF regions[i].value.named THEN regions[i].value.name
                         ELSE "None", ": ">>
                 \o FormatInt(regions[i].count))]
    \o <<FigureCanvasTkAgg("Top Regions")>>

\* ResultFrame._update_ui: the widgets it adds
update_ui(salary, skills, regions, salary_distribution) ==
    display_salary(salary) \o display_salary_histogram(salary_distribution)
    \o display_skills(skills) \o display_regions(regions)

\* get_salary_distribution(vacancies): a bound counts when it is truthy
RECURSIVE get_salary_distribution(_)
get_salary_distribution(vacancies) ==
    IF vacancies = <<>> THEN <<>>
    ELSE LET before == get_salary_distribution(SubSeq(vacancies, 1, Len(vacancies) - 1))
             salary == vacancies[Len(vacancies)].salary
             from == salary.from # None /\ salary.from # 0
             to == salary.to # None /\ salary.to # 0
         IN  IF salary.has /\ from /\ to
             THEN Append(before, PyFloat(Rat(salary.from + salary.to, 2)))
             ELSE IF salary.has /\ from
             THEN Append(before, [ty |-> "int", q |-> Rat(salary.from, 1)])
             ELSE IF salary.has /\ to
             THEN Append(before, [ty |-> "int", q |-> Rat(salary.to, 1)])
             ELSE before

\* a caller runs get_salary_distribution(vacancies)
call_get_salary_distribution ==
    /\ out.fn = "none"
    /\ out' = [fn |-> "get_salary_distribution", method |-> "", raised |-> "",
               value |-> get_salary_distribution(arg)]
    /\ UNCHANGED <<cfgVars, arg>>

\* the loads started while the Settings view is in use
MaxLoads == 1

\* what the user types into the Settings view while loads are running, and
\* what the search endpoint answers then
TypedWhileLoading == {<<" ", "7">>, <<"0">>, <<"a", "b", "c">>}

SearchedWhileLoading == {<<>>, <<"H", "R">>}

LoadingResponses ==
    {[ok |-> TRUE,
      items |-> <<[page |-> [status |-> 200, skills |-> <<"py">>],
                   salary |-> [has |-> TRUE, from |-> MaxSalary, to |-> None,
                               currency |-> "RUR"],
                   area |-> [has |-> TRUE, named |-> TRUE, name |-> "msk"]]>>,
      has_pages |-> TRUE, pages |-> 0]}

\* widget.after(0, callback) that queues the callback twice
after_twice(queue, callback) == Append(Append(queue, callback), callback)

\* widget.after(0, callback): the callback joins Tk's queue
after(queue, callback) == Append(queue, callback)

\* what the user may have typed into MainMenu.entry
Placeholder ==
    <<"E", "n", "t", "e", "r", " ", "j", "o", "b", " ", "t", "i", "t", "l", "e">>

EntryTexts == {<<>>, <<" ">>, Placeholder, <<" ", "Q", "A">>, <<"H", "R">>}

\* the postings the search endpoint knows in a run of the Result view
ResultVacancies ==
    {BaseVacancy,
     [page |-> [status |-> 200, skills |-> <<"py", "sql">>],
      salary |-> [has |-> TRUE, from |-> MaxSalary, to |-> None, currency |-> "RUR"],
      area |-> [has |-> TRUE, named |-> TRUE, name |-> "msk"]],
     [page |-> [status |-> 200, skills |-> <<"py">>],
      salary |-> [has |-> TRUE, from |-> None, to |-> MaxSalary, currency |-> "BYR"],
      area |-> [has |-> TRUE, named |-> TRUE, name |-> "spb"]],
     [BaseVacancy EXCEPT !.page = [status |-> 404, skills |-> <<>>]]}

\* the answers of the search endpoint in such a run: the same to every
\* page request
ResultResponses ==
    {[ok |-> FALSE, items |-> <<>>, has_pages |-> FALSE, pages |-> 0],
     [ok |-> TRUE, items |-> <<>>, has_pages |-> FALSE, pages |-> 0]}
    \cup {[ok |-> TRUE, items |-> <<v>>, has_pages |-> TRUE, pages |-> 1] :
              v \in ResultVacancies}
    \cup {[ok |-> TRUE, items |-> <<v, w>>, has_pages |-> TRUE, pages |-> 0] :
              v \in ResultVacancies \ {BaseVacancy},
              w \in {x \in ResultVacancies : x.salary.currency = "BYR"}}

UiIdle == events = <<>> /\ rendered = <<>>

\* MainMenu.search with one of the texts in the entry: the Search button; a
\* query that passes the test shows the Result view, whose refresh(query)
\* starts the thread
MainMenuSearchOf(texts) ==
    \E text \in texts :
        LET query == Strip(text) IN
        IF query = <<>> \/ query = Placeholder
        THEN /\ dialog' = "warning"
             /\ UNCHANGED <<file, written, ret, op, fields, netVars, uiVars>>
        ELSE /\ Len(th) < MaxActivations
             /\ dialog' = "none"
             /\ rendered' = ResultFrame_refresh(query)
             /\ th' = Append(th, NewCall("_load_data"))
             /\ UNCHANGED <<file, written, ret, op, fields, service, events>>

MainMenu_search == MainMenuSearchOf(EntryTexts)

\* _load_data: skills = da.get_top_skills(vacancies)
load_data_skills ==
    \E t \in DOMAIN th :
        LET c == th[t]
            r == get_top_skills(file, c.vacancies)
            called == [c EXCEPT !.calls = Append(@, "get_top_skills"),
                                !.scraped = r.scraped]
        IN  /\ c.pc = "skills"
            /\ file' = r.file
            /\ written' = WrittenAfterLoad(file, written)
            /\ th' = [th EXCEPT ![t] =
                         IF r.raised # "" THEN Raised(called, r.raised)
                         ELSE [called EXCEPT !.pc = "regions", !.skills = r.entries]]
            /\ UNCHANGED <<ret, op, fields, dialog, service>>

\* _load_data: regions = da.get_top_regions(vacancies, get_top_regions_count())
load_data_regions ==
    \E t \in DOMAIN th :
        LET c == th[t]
            g == get_top_regions_count(file)
        IN  /\ c.pc = "regions"
            /\ file' = g.file
            /\ written' = WrittenAfterLoad(file, written)
            /\ th' = [th EXCEPT ![t] =
                         IF g.raised # ""
                         THEN Raised([c EXCEPT !.calls = Append(@, "get_top_regions")],
                                     g.raised)
                         ELSE [c EXCEPT !.pc = "salary",
                                        !.calls = Append(@, "get_top_regions"),
                                        !.regions = get_top_regions(c.vacancies, g.value.n)]]
            /\ UNCHANGED <<ret, op, fields, dialog, service>>

\* _load_data: salary = da.get_salary_statistics(vacancies)
load_data_salary ==
    \E t \in DOMAIN th, world \in ExchangeWorlds :
        LET c == th[t]
            r == get_salary_statistics(file, c.vacancies, world)
            called == [c EXCEPT !.calls = Append(@, "get_salary_statistics"),
                                !.lookups = r.result.lookups]
        IN  /\ c.pc = "salary"
            /\ file' = r.file
            /\ written' = WrittenAfterLoad(file, written)
            /\ th' = [th EXCEPT ![t] =
                         IF r.result.raised # "" THEN Raised(called, r.result.raised)
                         ELSE [called EXCEPT !.pc = "distribution",
                                             !.salary = r.result.value]]
            /\ UNCHANGED <<ret, op, fields, dialog, service>>

\* _load_data: salary_distribution = da.get_salary_distribution(vacancies)
load_data_distribution ==
    \E t \in DOMAIN th :
        LET c == th[t] IN
        /\ c.pc = "distribution"
        /\ th' = [th EXCEPT ![t] =
                     [c EXCEPT !.pc = "post",
                               !.calls = Append(@, "get_salary_distribution"),
                               !.salary_distribution = get_salary_distribution(c.vacancies)]]
        /\ UNCHANGED <<cfgVars, service>>

\* _load_data: the end of the try block hands _update_ui to the event loop
load_data_post ==
    \E t \in DOMAIN th :
        LET c == th[t]
            callback == [kind |-> "update_ui", salary |-> c.salary,
                         skills |-> c.skills, regions |-> c.regions,
                         salary_distribution |-> c.salary_distribution]
        IN  /\ c.pc = "post"
            /\ events' = after(events, callback)
            /\ th' = [th EXCEPT ![t] = [c EXCEPT !.pc = "done",
                                                 !.posted = after(@, callback)]]
            /\ UNCHANGED <<cfgVars, service, rendered>>

\* _load_data: the except block hands the error label to the event loop
load_data_except ==
    \E t \in DOMAIN th :
        LET c == th[t]
            callback == [kind |-> "error", e |-> c.error]
        IN  /\ c.pc = "except"
            /\ events' = after(events, callback)
            /\ th' = [th EXCEPT ![t] = [c EXCEPT !.pc = "done",
                                                 !.posted = after(@, callback)]]
            /\ UNCHANGED <<cfgVars, service, rendered>>

\* the event loop runs the oldest queued callback
mainloop ==
    /\ events # <<>>
    /\ LET callback == Head(events)
       IN  rendered' = rendered \o
              (IF callback.kind = "update_ui"
               THEN update_ui(callback.salary, callback.skills, callback.regions,
                              callback.salary_distribution)
               ELSE <<Label(<<"Error: ", callback.e>>)>>)
    /\ events' = Tail(events)
    /\ dialog' = "none"
    /\ UNCHANGED <<file, written, ret, op, fields, netVars>>

(***************************************************************************)
(* Specifications                                                          *)
(***************************************************************************)
\* the state once MainApplication() is constructed on a fresh checkout:
\* get_window_size() has written the defaults and SettingsFrame has built
\* its widgets from them
CfgStarted ==
    /\ file = save_config(DefaultConfig)
    /\ written = DefaultConfig
    /\ ret = NoDict
    /\ op = "start"
    /\ fields = build_widgets(save_config(DefaultConfig), <<>>).fields
    /\ dialog = "none"

InitSettings == CfgStarted /\ LauncherIdle /\ NetIdle /\ FnIdle /\ UiIdle

NextSettings ==
    \/ (SettingsFrame_refresh /\ UNCHANGED <<launcherVars, netVars, fnVars, uiVars>>)
    \/ (SettingsType /\ UNCHANGED <<launcherVars, netVars, fnVars, uiVars>>)
    \/ (SettingsChoose /\ UNCHANGED <<launcherVars, netVars, fnVars, uiVars>>)
    \/ (SettingsFrame_save_config /\ UNCHANGED <<launcherVars, netVars, fnVars, uiVars>>)

SpecSettings == InitSettings /\ [][NextSettings]_vars

\* the configuration module before its first use: no file yet
InitStore ==
    /\ file = NoFile
    /\ written = NoDict
    /\ ret = NoDict
    /\ op = "start"
    /\ fields = build_widgets(save_config(DefaultConfig), <<>>).fields
    /\ dialog = "none"
    /\ LauncherIdle
    /\ NetIdle
    /\ FnIdle
    /\ UiIdle

NextStore ==
    \/ (StoreSave /\ UNCHANGED <<launcherVars, netVars, fnVars, uiVars>>)
    \/ (StoreLoad /\ UNCHANGED <<launcherVars, netVars, fnVars, uiVars>>)
    \/ (StoreGet /\ UNCHANGED <<launcherVars, netVars, fnVars, uiVars>>)
    \/ (StoreSet /\ UNCHANGED <<launcherVars, netVars, fnVars, uiVars>>)
    \/ (StoreRemove /\ UNCHANGED <<launcherVars, netVars, fnVars, uiVars>>)

SpecStore == InitStore /\ [][NextStore]_vars

InitLauncher == CfgStarted /\ LauncherStart /\ NetIdle /\ FnIdle /\ UiIdle

NextLauncher ==
    \/ (launcher_main /\ UNCHANGED <<cfgVars, netVars, fnVars, uiVars>>)
    \/ (create_conda_env /\ UNCHANGED <<cfgVars, netVars, fnVars, uiVars>>)
    \/ (run_app_in_conda /\ UNCHANGED <<cfgVars, netVars, fnVars, uiVars>>)

SpecLauncher == InitLauncher /\ [][NextLauncher]_vars

\* search_vacancies(query) called on its own, the stored maximum being any
\* count up to MaxTotal or the default
InitSearch ==
    /\ \E m \in (0..MaxTotal) \cup {50} :
          /\ written = [DefaultConfig EXCEPT !.max_results_per_request = PyIntV(m)]
          /\ file = save_config(written)
    /\ ret = NoDict
    /\ op = "start"
    /\ fields = build_widgets(save_config(DefaultConfig), <<>>).fields
    /\ dialog = "none"
    /\ LauncherIdle
    /\ service = Responses({BaseVacancy})
    /\ th = <<NewCall("direct")>>
    /\ FnIdle
    /\ UiIdle

NextSearch ==
    \/ (search_call /\ UNCHANGED <<launcherVars, fnVars, uiVars>>)
    \/ (search_request /\ UNCHANGED <<launcherVars, fnVars, uiVars>>)
    \/ (search_exit /\ UNCHANGED <<launcherVars, fnVars, uiVars>>)

SpecSearch == InitSearch /\ [][NextSearch]_vars

\* the salary routines called on a list of vacancies, the configured method
\* being "average", "median" or a string that is neither
InitSalary ==
    /\ \E m \in MethodInputs :
          /\ written = [DefaultConfig EXCEPT !.salary_calculation_method = PyStr(m)]
          /\ file = save_config(written)
    /\ ret = NoDict
    /\ op = "start"
    /\ fields = build_widgets(save_config(DefaultConfig), <<>>).fields
    /\ dialog = "none"
    /\ LauncherIdle
    /\ NetIdle
    /\ arg \in SeqsUpTo(SalaryVacancies, MaxVac)
    /\ out = [fn |-> "none"]
    /\ UiIdle

NextSalary ==
    \/ (call_calculate_salary /\ UNCHANGED <<launcherVars, netVars, uiVars>>)
    \/ (call_get_salary_statistics /\ UNCHANGED <<launcherVars, netVars, uiVars>>)
    \/ (call_get_salary_distribution /\ UNCHANGED <<launcherVars, netVars, uiVars>>)

SpecSalary == InitSalary /\ [][NextSalary]_vars

\* the two top-N routines called on a list of vacancies, the configured
\* counts being any number up to MaxTop
InitTop ==
    /\ \E n \in 0..MaxTop :
          /\ written = [DefaultConfig EXCEPT !.top_skills_count = PyIntV(n),
                                             !.top_regions_count = PyIntV(n)]
          /\ file = save_config(written)
    /\ ret = NoDict
    /\ op = "start"
    /\ fields = build_widgets(save_config(DefaultConfig), <<>>).fields
    /\ dialog = "none"
    /\ LauncherIdle
    /\ NetIdle
    /\ arg \in SeqsUpTo(TopVacancies, MaxVac)
    /\ out = [fn |-> "none"]
    /\ UiIdle

NextTop ==
    \/ (call_get_top_skills /\ UNCHANGED <<launcherVars, netVars, uiVars>>)
    \/ (call_get_top_regions /\ UNCHANGED <<launcherVars, netVars, uiVars>>)

SpecTop == InitTop /\ [][NextTop]_vars

\* the Result view from a started application: the configured method is
\* "average", "median" or a string that is neither, the stored maximum is the
\* default or 0, and the search endpoint gives one of its answers
InitResult ==
    /\ \E m \in MethodInputs, n \in {0, 50} :
          /\ written = [DefaultConfig EXCEPT !.salary_calculation_method = PyStr(m),
                                             !.max_results_per_request = PyIntV(n)]
          /\ file = save_config(written)
    /\ ret = NoDict
    /\ op = "start"
    /\ fields = build_widgets(save_config(DefaultConfig), <<>>).fields
    /\ dialog = "none"
    /\ LauncherIdle
    /\ \E r \in ResultResponses : service = {r}
    /\ th = <<>>
    /\ FnIdle
    /\ UiIdle

NextResult ==
    \/ (MainMenu_search /\ UNCHANGED <<launcherVars, fnVars>>)
    \/ (search_call /\ UNCHANGED <<launcherVars, fnVars, uiVars>>)
    \/ (search_request /\ UNCHANGED <<launcherVars, fnVars, uiVars>>)
    \/ (search_exit /\ UNCHANGED <<launcherVars, fnVars, uiVars>>)
    \/ (load_data_skills /\ UNCHANGED <<launcherVars, fnVars, uiVars>>)
    \/ (load_data_regions /\ UNCHANGED <<launcherVars, fnVars, uiVars>>)
    \/ (load_data_salary /\ UNCHANGED <<launcherVars, fnVars, uiVars>>)
    \/ (load_data_distribution /\ UNCHANGED <<launcherVars, fnVars, uiVars>>)
    \/ (load_data_post /\ UNCHANGED <<launcherVars, fnVars>>)
    \/ (load_data_except /\ UNCHANGED <<launcherVars, fnVars>>)
    \/ (mainloop /\ UNCHANGED <<launcherVars, fnVars>>)

SpecResult == InitResult /\ [][NextResult]_vars


\* the readers of the configuration over a stored record that lacks some
\* fields: the getters, and the Settings view as it is built or re-shown
InitDefaults ==
    /\ \E r \in PartialRecords :
          /\ written = r
          /\ file = save_config(r)
    /\ ret = NoDict
    /\ op = "start"
    /\ fields = UnsetFields
    /\ dialog = "none"
    /\ LauncherIdle
    /\ NetIdle
    /\ FnIdle
    /\ UiIdle

NextDefaults ==
    \/ (StoreGet /\ UNCHANGED <<launcherVars, netVars, fnVars, uiVars>>)
    \/ (SettingsFrame_refresh /\ UNCHANGED <<launcherVars, netVars, fnVars, uiVars>>)

SpecDefaults == InitDefaults /\ [][NextDefaults]_vars

\* the running application: the user saves settings and starts searches
\* while the load threads of earlier searches run
InitConcurrent ==
    /\ CfgStarted
    /\ LauncherIdle
    /\ \E r \in LoadingResponses : service = {r}
    /\ th = <<>>
    /\ FnIdle
    /\ UiIdle

NextConcurrent ==
    \/ (~UiBusy /\ SettingsTypeOf({"max_results_var"}, TypedWhileLoading)
           /\ UNCHANGED <<launcherVars, netVars, fnVars, uiVars>>)
    \/ (~UiBusy /\ SettingsFrame_refresh
           /\ UNCHANGED <<launcherVars, netVars, fnVars, uiVars>>)
    \/ (SettingsFrame_save_open /\ UNCHANGED <<launcherVars, netVars, fnVars, uiVars>>)
    \/ (SettingsFrame_save_close /\ UNCHANGED <<launcherVars, netVars, fnVars, uiVars>>)
    \/ (~UiBusy /\ Len(th) < MaxLoads /\ MainMenuSearchOf(SearchedWhileLoading)
           /\ UNCHANGED <<launcherVars, fnVars>>)
    \/ (~UiBusy /\ mainloop /\ UNCHANGED <<launcherVars, fnVars>>)
    \/ (search_call /\ UNCHANGED <<launcherVars, fnVars, uiVars>>)
    \/ (search_request /\ UNCHANGED <<launcherVars, fnVars, uiVars>>)
    \/ (search_exit /\ UNCHANGED <<launcherVars, fnVars, uiVars>>)
    \/ (load_data_skills /\ UNCHANGED <<launcherVars, fnVars, uiVars>>)
    \/ (load_data_regions /\ UNCHANGED <<launcherVars, fnVars, uiVars>>)
    \/ (load_data_salary /\ UNCHANGED <<launcherVars, fnVars, uiVars>>)
    \/ (load_data_distribution /\ UNCHANGED <<launcherVars, fnVars, uiVars>>)
    \/ (load_data_post /\ UNCHANGED <<launcherVars, fnVars>>)
    \/ (load_data_except /\ UNCHANGED <<launcherVars, fnVars>>)

SpecConcurrent == InitConcurrent /\ [][NextConcurrent]_vars

(***************************************************************************)
(* Properties                                                              *)
(***************************************************************************)
Persisted == json_load(file.doc)

\* a text int() cannot read: it holds no digit, or a character that is
\* neither a digit, a sign nor a blank
NonNumeric(t) ==
    \/ \A i \in 1..Len(t) : ~IsDigit(t[i])
    \/ \E i \in 1..Len(t) : ~IsDigit(t[i]) /\ t[i] \notin {"-", "+", " "}

\* C2: a Settings save (the step that shows a dialog) taken while one of the
\* three integer fields holds a non-numeric text leaves config.json exactly
\* as it was.
C2_NonNumericSaveWritesNothing ==
    [][(dialog' # "none" /\ \E n \in IntFields : NonNumeric(fields[n]))
          => file' = file]_vars

\* C2 witness: a save was refused for a non-numeric top-skills text while the
\* max-results field held a readable number that is not the stored one.
C2_Witness ==
    /\ dialog = "error"
    /\ NonNumeric(fields.top_skills_var)
    /\ fields.max_results_var = <<" ", "7">>
    /\ Persisted.max_results_per_request.n = 0

\* C3 (as claimed): whatever the Settings view has saved, the stored counts
\* and window dimensions are positive integers, and a save of a non-numeric
\* or non-positive field is refused.
C3_PersistedPositive ==
    /\ Persisted.max_results_per_request.n > 0
    /\ Persisted.top_skills_count.n > 0
    /\ Persisted.top_regions_count.n > 0
    /\ \A i \in 1..Len(Persisted.window_size.xs) : Persisted.window_size.xs[i] > 0

\* two configuration values are the same setting: same kind and content, a
\* window size being the same [width, height] whether held as list or tuple
SameValue(a, b) ==
    /\ a.n = b.n /\ a.s = b.s /\ a.xs = b.xs
    /\ \/ a.ty = b.ty
       \/ {a.ty, b.ty} \subseteq {"list", "tuple"}

SameRecord(a, b) ==
    /\ DOMAIN a = DOMAIN b
    /\ \A k \in DOMAIN a : SameValue(a[k], b[k])

\* the defaults as documented, and the file text that holds exactly them
DocumentedDefaults ==
    [window_size |-> PyList(<<600, 400>>),
     salary_calculation_method |-> PyStr("average"),
     max_results_per_request |-> PyIntV(50),
     top_skills_count |-> PyIntV(5),
     top_regions_count |-> PyIntV(5)]

DocumentedDefaultsText ==
    [window_size |-> <<"[", "6", "0", "0", ",", "4", "0", "0", "]">>,
     salary_calculation_method |-> <<"\"", "average", "\"">>,
     max_results_per_request |-> <<"5", "0">>,
     top_skills_count |-> <<"5">>,
     top_regions_count |-> <<"5">>]

\* C4: what load_config() returns is, field for field, the record last handed
\* to save_config(); and a load_config() that found no file returns the
\* documented defaults and leaves the file holding exactly them.
C4_RoundTrip ==
    /\ op \in {"load", "load_absent"} => SameRecord(ret, written)
    /\ op = "load_absent" =>
          /\ SameRecord(ret, DocumentedDefaults)
          /\ file.exists
          /\ file.doc = DocumentedDefaultsText

\* C4 witness: a non-default record was saved and then loaded back.
C4_Witness ==
    /\ op = "load"
    /\ written \in ValidRecords
    /\ written.window_size = PyTuple(<<800, 600>>)
    /\ written.salary_calculation_method.s = "median"
    /\ written.max_results_per_request.n = MaxCount
    /\ ret.max_results_per_request.n = MaxCount

\* C1: search_vacancies issues a page request only while it holds fewer
\* items than the configured maximum, and the list it returns is no longer
\* than that maximum.
C1_StopsAtMaximum ==
    \A t \in DOMAIN th :
        /\ \A i \in DOMAIN th[t].requests :
              th[t].requests[i].had < th[t].total_vacancies
        /\ th[t].pc = "returned" =>
              Len(th[t].vacancies) <= th[t].total_vacancies

\* C1 witness: the second page took the list past the maximum, and the call
\* returned exactly the maximum.
C1_Witness ==
    \E t \in DOMAIN th :
        /\ th[t].pc = "returned"
        /\ Len(th[t].requests) = 2
        /\ Len(th[t].all_vacancies) > th[t].total_vacancies
        /\ Len(th[t].vacancies) = th[t].total_vacancies
        /\ th[t].total_vacancies = MaxTotal

SalaryCalled == out.fn \in {"calculate_salary", "get_salary_statistics"}

\* the vacancies of the list that carry a salary sub-record with a bound
WithBound == {i \in DOMAIN arg : arg[i].salary.has /\
                  (arg[i].salary.from # None \/ arg[i].salary.to # None)}

\* the salaries of the list are in roubles (named so, or left unnamed)
AllRUR == \A i \in WithBound : arg[i].salary.currency \in {"RUR", ""}

\* C5 (as claimed): with a method that is neither "average" nor "median" the
\* salary routines fail with the invalid-method error, whatever the list.
C5_AsClaimed ==
    (SalaryCalled /\ out.method \notin {"average", "median"})
        => out.raised = "InvalidMethod"

\* C5 (amended): with such a method the routines return no value when some
\* vacancy carries a salary bound: they fail with the invalid-method error,
\* or with the error of a currency conversion that failed first; when no
\* vacancy carries a bound they return 0 and raise nothing.
C5_InvalidMethod ==
    (SalaryCalled /\ out.method \notin {"average", "median"}) =>
        /\ (WithBound # {} /\ AllRUR) => out.raised = "InvalidMethod"
        /\ WithBound # {} => out.raised \in {"InvalidMethod", "HTTPError", "CurrencyNotFound"}
        /\ WithBound = {} => out.raised = "" /\ out.value = [ty |-> "int", q |-> [num |-> 0, den |-> 1]]

\* C5 witness: get_salary_statistics refused the configured method "mode"
\* for a list that mixes a vacancy without salary and one with both bounds.
C5_Witness ==
    /\ out.fn = "get_salary_statistics"
    /\ out.method = "mode"
    /\ out.raised = "InvalidMethod"
    /\ Len(arg) = 2
    /\ ~arg[1].salary.has
    /\ arg[2].salary.from = 0 /\ arg[2].salary.to = MaxSalary

\* twice the value the claim derives from vacancy i (an integer)
Twice(i) ==
    LET sal == arg[i].salary
    IN  IF sal.from # None /\ sal.to # None THEN sal.from + sal.to
        ELSE IF sal.from # None THEN 2 * sal.from
        ELSE 2 * sal.to

RECURSIVE SumTwice(_)
SumTwice(I) ==
    IF I = {} THEN 0
    ELSE LET i == CHOOSE j \in I : TRUE IN Twice(i) + SumTwice(I \ {i})

\* the k-th smallest of the derived values (doubled)
KthTwice(k) ==
    CHOOSE x \in {Twice(i) : i \in WithBound} :
        /\ Cardinality({i \in WithBound : Twice(i) < x}) < k
        /\ k <= Cardinality({i \in WithBound : Twice(i) <= x})

\* C6: for vacancies with rouble salaries and a method of "average" or
\* "median", the routines raise nothing; they return 0 when no vacancy
\* carries a bound, else the mean of the derived values (lower bound, upper
\* bound, or the mean of both) for "average", and for "median" the middle
\* derived value, or the mean of the two middle ones for an even count.
C6_RepresentativeSalary ==
    (SalaryCalled /\ AllRUR /\ out.method \in {"average", "median"}) =>
        LET n == Cardinality(WithBound)
            q == out.value.q
        IN  /\ out.raised = ""
            /\ n = 0 => out.value.ty = "int" /\ q.num = 0
            /\ (n > 0 /\ out.method = "average") =>
                  q.num * 2 * n = q.den * SumTwice(WithBound)
            /\ (n > 0 /\ out.method = "median" /\ n % 2 = 1) =>
                  q.num * 2 = q.den * KthTwice((n + 1) \div 2)
            /\ (n > 0 /\ out.method = "median" /\ n % 2 = 0) =>
                  q.num * 4 = q.den * (KthTwice(n \div 2) + KthTwice((n \div 2) + 1))

\* C6 witness: the median of an even count: a vacancy without salary is
\* skipped, one has only a lower bound of 0, one only an upper bound, and
\* the result is the mean of the two.
C6_Witness ==
    /\ out.fn = "calculate_salary" /\ out.method = "median" /\ out.raised = ""
    /\ Len(arg) = 3
    /\ arg[1].salary = [has |-> TRUE, from |-> None, to |-> MaxSalary, currency |-> "RUR"]
    /\ ~arg[2].salary.has
    /\ arg[3].salary = [has |-> TRUE, from |-> 0, to |-> None, currency |-> "RUR"]
    /\ out.value.q.num * 2 = out.value.q.den * MaxSalary

\* where the values counted by the routine occur in the input: <<i, j>> is
\* the j-th skill of vacancy i's page, <<i, 1>> the area of vacancy i
Occurrences ==
    IF out.fn = "get_top_skills"
    THEN UNION {{<<i, j>> : j \in DOMAIN arg[i].page.skills} : i \in DOMAIN arg}
    ELSE {<<i, 1>> : i \in {k \in DOMAIN arg : arg[k].area.has}}

ValueAt(p) ==
    IF out.fn = "get_top_skills" THEN arg[p[1]].page.skills[p[2]]
    ELSE [named |-> arg[p[1]].area.named, name |-> arg[p[1]].area.name]

CountOf(v) == Cardinality({p \in Occurrences : ValueAt(p) = v})

\* v is met in the input before w is
MetBefore(v, w) ==
    \E p \in Occurrences :
        /\ ValueAt(p) = v
        /\ \A q \in Occurrences :
              ValueAt(q) = w => (p[1] < q[1] \/ (p[1] = q[1] /\ p[2] < q[2]))

\* C7: get_top_skills and get_top_regions return at most N entries, each a
\* value of the input with the number of times it occurs, no value twice,
\* in descending order of count, a value met earlier in the input coming
\* first among equal counts, and no value left out counts more than a
\* returned one.
C7_TopEntries ==
    (out.fn \in {"get_top_skills", "get_top_regions"} /\ out.raised = "") =>
        LET e == out.entries IN
        /\ Len(e) <= out.n
        /\ \A k \in DOMAIN e :
              /\ e[k].count = CountOf(e[k].value)
              /\ e[k].count >= 1
        /\ \A k, l \in DOMAIN e :
              k < l =>
                 /\ e[k].value # e[l].value
                 /\ \/ e[k].count > e[l].count
                    \/ e[k].count = e[l].count /\ MetBefore(e[k].value, e[l].value)
        /\ \A p \in Occurrences :
              (\A k \in DOMAIN e : e[k].value # ValueAt(p)) =>
                  \A k \in DOMAIN e : CountOf(ValueAt(p)) <= e[k].count

\* C7 witness: three skills pages give "sql" and "py" twice each and N = 1:
\* "sql", met first, is the one entry returned.
C7_Witness ==
    /\ out.fn = "get_top_skills" /\ out.raised = "" /\ out.n = 1
    /\ Len(arg) = 3
    /\ arg[1].page.skills = <<"sql", "py">>
    /\ arg[2].page.skills = <<"py">>
    /\ arg[3].page.skills = <<"sql">>
    /\ out.entries = <<[value |-> "sql", count |-> 2]>>

\* the launcher's status when the environment has to be created and cannot be
CreationRefused == ~envListed /\ (~descriptor \/ createRc # 0)

\* C10 (amended): the launcher exits with status 1 if the environment is not
\* listed and either environment.yml is missing or the creation fails;
\* otherwise it exits with the GUI process's status; and the GUI is started
\* only if the environment was listed or was created successfully.
C10_ExitStatus ==
    /\ lpc = "exited" =>
          exitStatus = IF CreationRefused THEN 1 ELSE guiRc
    /\ guiStarted => ~CreationRefused
    /\ (lpc = "exited" /\ ~CreationRefused) => guiStarted

\* C10 witness: the environment did not exist, was created, and the GUI's
\* non-zero status became the launcher's.
C10_Witness ==
    /\ lpc = "exited" /\ ~envListed /\ descriptor /\ createRc = 0
    /\ guiStarted /\ guiRc = MaxGuiRc /\ exitStatus = MaxGuiRc

\* C10 (as claimed): status 1 whenever environment.yml is missing or the
\* creation fails, whether or not the environment exists.
C10_AsClaimed ==
    lpc = "exited" =>
        exitStatus = IF ~descriptor \/ (~envListed /\ createRc # 0) THEN 1 ELSE guiRc

\* ---- the Result view
\* the search endpoint has no posting for the query: every answer is a
\* success with an empty item list
EndpointEmpty == \A r \in service : r.ok /\ r.items = <<>>

\* one activation has run to its end: its thread is over and the event loop
\* has run what the thread queued
ActivationOver ==
    /\ Len(th) = 1
    /\ th[1].pc = "done"
    /\ th[1].requests # <<>>
    /\ events = <<>>

\* what the Result view shows after the query line and the loading line
Shown == SubSeq(rendered, 3, Len(rendered))

\* the Ready state of an activation without postings, with the given text in
\* the salary label
ZeroPostingsRendered(text) ==
    (EndpointEmpty /\ ActivationOver) =>
        /\ Len(th[1].posted) = 1
        /\ th[1].posted[1].kind = "update_ui"
        /\ th[1].error = ""
        /\ th[1].scraped = 0
        /\ th[1].lookups = 0
        /\ Shown = <<Label(<<"Salary">>), Label(text),
                     Label(<<"Skills">>), FigureCanvasTkAgg("Top Skills"),
                     Label(<<"Regions">>), FigureCanvasTkAgg("Top Regions")>>

\* C8: when the search endpoint yields zero postings, the activation ends in
\* the Ready state: the salary is rendered as "0.0 RUB", there is no histogram
\* section, the Skills and Regions sections are empty, no detail page and no
\* exchange rate was requested, and nothing was raised.
C8_ZeroPostings == ZeroPostingsRendered(<<"0", ".", "0", " RUB">>)

Range(f) == {f[x] : x \in DOMAIN f}

LoadDataCalls ==
    <<"search_vacancies", "get_top_skills", "get_top_regions",
      "get_salary_statistics", "get_salary_distribution">>

\* the routines of _load_data that can raise, and what they raise
Raisers ==
    {<<"search_vacancies", "HTTPError">>, <<"get_top_skills", "PageError">>,
     <<"get_salary_statistics", "HTTPError">>,
     <<"get_salary_statistics", "CurrencyNotFound">>,
     <<"get_salary_statistics", "InvalidMethod">>}

\* a thread that is over has handed over exactly one callback: the results
\* when the five routines ran in order and none raised, the error of the
\* routine that raised otherwise; a thread that is not over has handed nothing
OneOutcome(c) ==
    IF c.pc = "done"
    THEN /\ Len(c.posted) = 1
         /\ \/ /\ c.posted[1].kind = "update_ui"
               /\ c.error = ""
               /\ c.calls = LoadDataCalls
            \/ /\ c.posted[1].kind = "error"
               /\ c.posted[1].e = c.error
               /\ c.calls = SubSeq(LoadDataCalls, 1, Len(c.calls))
               /\ <<c.calls[Len(c.calls)], c.error>> \in Raisers
    ELSE c.posted = <<>>

\* C9: every activation starts exactly one thread (threads start one at a
\* time, only in the step that shows the query and the loading line, and every
\* such step starts one); a thread's step never changes the rendered
\* content and queues at most one callback; a finished thread has handed
\* exactly one outcome to the event loop, the results if every routine
\* succeeded in order and the error otherwise, never both.
C9_OneUnitOneOutcome ==
    [][/\ Len(th') \in {Len(th), Len(th) + 1}
       /\ Len(th') = Len(th) + 1 =>
             /\ \E text \in EntryTexts : rendered' = ResultFrame_refresh(Strip(text))
             /\ SubSeq(th', 1, Len(th)) = th
             /\ th'[Len(th')].pc = "search_call"
             /\ events' = events
       /\ (rendered' # rendered /\ events' = events) => Len(th') = Len(th) + 1
       /\ \A t \in DOMAIN th :
             th'[t] # th[t] =>
                /\ rendered' = rendered
                /\ events' = events \/ \E callback \in Range(th'[t].posted) :
                                          events' = Append(events, callback)
       /\ \A t \in DOMAIN th' : OneOutcome(th'[t])]_vars

\* two activations are over, one with the results and one with an error, and
\* the event loop has rendered both
C9_Witness ==
    /\ Len(th) = 2
    /\ \A t \in DOMAIN th : th[t].pc = "done"
    /\ \E t, u \in DOMAIN th :
          /\ th[t].posted[1].kind = "update_ui"
          /\ th[u].posted[1].kind = "error"
    /\ events = <<>>
    /\ Len(rendered) > 2

\* ---- defaults for absent fields
\* the StringVar that shows a field, and the text of its documented default
VarOf ==
    [window_size |-> "window_size_var",
     salary_calculation_method |-> "salary_method_var",
     max_results_per_request |-> "max_results_var",
     top_skills_count |-> "top_skills_var",
     top_regions_count |-> "top_regions_var"]

ShownDefault ==
    [window_size |-> <<"6", "0", "0", "x", "4", "0", "0">>,
     salary_calculation_method |-> "average",
     max_results_per_request |-> <<"5", "0">>,
     top_skills_count |-> <<"5">>,
     top_regions_count |-> <<"5">>]

Absent == DOMAIN DocumentedDefaults \ DOMAIN Persisted

\* a getter called for a field the stored record lacks returns the default
GettersDefault ==
    \A k \in DOMAIN ret : k \in Absent => SameValue(ret[k], DocumentedDefaults[k])

\* C11: whenever a field is absent from the stored record, its getter returns
\* the documented default, and an activation of the Settings view shows the
\* documented default for it (600x400, average, 50, 5, 5).
C11_DefaultsForAbsent ==
    [][/\ GettersDefault'
       /\ (fields' # fields \/ dialog' # dialog) =>
             \A k \in Absent' : fields'[VarOf[k]] = ShownDefault[k]]_vars

\* ---- salary distribution
\* the numbers of a list of results, without their Python types
Numbers(results) == [i \in DOMAIN results |-> results[i].q]

\* the values calculate_salary collects from the list before it aggregates
Collected == SalaryValues(arg, CHOOSE world \in ExchangeWorlds : ~world.up).values

\* C12: for a list whose salaries are all in roubles, with bounds absent or
\* integers >= 0, get_salary_distribution returns, element for element and in
\* the same order, the values calculate_salary collects before aggregating.
C12_SameRule ==
    (out.fn = "get_salary_distribution" /\ AllRUR) => Numbers(out.value) = Collected

\* ---- page indices
\* C13: search_vacancies requests the pages 0, 1, 2, ... in this order, and
\* once a response has reported P >= 1 pages in total it issues no request
\* with a page index of P or more.
C13_PageIndices ==
    \A t \in DOMAIN th :
        \A i \in DOMAIN th[t].requests :
            /\ th[t].requests[i].page = i - 1
            /\ \A j \in 1..(i - 1) :
                  th[t].requests[j].reported >= 1 =>
                      th[t].requests[i].page < th[t].requests[j].reported

\* ---- configuration and the load threads
\* C14: in every interleaving of the UI thread and the load threads, a step
\* of a load thread leaves the configuration file as it is, and the file
\* changes only in the two steps of a Settings-view save, so what a save
\* persisted stays until the next save.
C14_ThreadsOnlyRead ==
    [][/\ (\E t \in DOMAIN th : th'[t] # th[t]) => file' = file
       /\ file' # file =>
             \/ ~UiBusy /\ file' = Truncated
             \/ UiBusy /\ file' = save_config(SettingsRecord(fields).config)]_vars

\* a load thread read the default maximum, then met the file while a save
\* had it open; the save went through, and the file holds the saved maximum
\* after the thread is over
C14_Witness ==
    /\ ~UiBusy
    /\ file.exists
    /\ Persisted.max_results_per_request.n = 7
    /\ \E t \in DOMAIN th :
          /\ th[t].pc = "done"
          /\ th[t].total_vacancies = 50
          /\ th[t].calls[Len(th[t].calls)] = "get_top_skills"
          /\ th[t].error = "JSONDecodeError"

====
